---- MODULE Spec2Model ----
(***************************************************************************)
(* Scanner and recursive-descent Parser of src/Scanner_Parser.py.         *)
(*                                                                         *)
(* Scanner.tokenize is one action per iteration of its for loop over      *)
(* re.finditer; the Parser is a stack machine: one frame per active call  *)
(* of a grammar method, one action per straight-line piece of a method    *)
(* between two calls, a return or a raise.                                 *)
(*                                                                         *)
(* Offsets are Python's: the character at offset i is code[i+1], the      *)
(* token at cursor p is tokens[p+1].  In ScanSpec a lexeme is the sequence *)
(* of its characters; in ParseSpec the token list handed to Parser() is   *)
(* written with string lexemes.                                            *)
(***************************************************************************)
EXTENDS Integers, Sequences, FiniteSets, TLC

VARIABLES
    code,      \* Scanner.code: the source, a sequence of characters
    mo,        \* the match object of the current iteration of tokenize's loop
    scanning,  \* TRUE until tokenize returns
    tokens,    \* Scanner.tokens, then Parser.tokens
    pos,       \* Parser.pos
    stack,     \* the active calls of the parser's methods, innermost last
    ret,       \* <<method, value>>: the value the call that returned last gave
    printed,   \* what parse() has printed, one line per finished call
    calls      \* how many times parse() has been called on this Parser

vars == <<code, mo, scanning, tokens, pos, stack, ret, printed, calls>>

scanVars == <<code, mo, scanning>>
parseVars == <<pos, stack, ret, printed, calls>>

\* ------------------------------------------------------------ bounds

\* longest source string of ScanSpec
MaxSrcLen == 3
\* longest token list of ParseSpec drawn over ShortTokens without restriction
MaxLen == 3
\* calls of parse() on one Parser
MaxCalls == 2

\* ------------------------------------------------------------ tokens

Tok(t, v) == [type |-> t, val |-> v]

EOF == Tok("EOF", "")

\* ------------------------------------------------------------ Scanner

keywords ==
    { <<"i","n","t">>, <<"f","l","o","a","t">>, <<"d","o","u","b","l","e">>,
      <<"b","o","o","l">>, <<"i","f">>, <<"e","l","s","e">>,
      <<"w","h","i","l","e">>, <<"f","o","r">>, <<"t","r","u","e">>,
      <<"f","a","l","s","e">>, <<"r","e","t","u","r","n">>,
      <<"m","a","i","n">> }

Digits == {"0","1","2","3","4","5","6","7","8","9"}

Letters ==
    {"a","b","c","d","e","f","g","h","i","j","k","l","m","n","o","p","q","r",
     "s","t","u","v","w","x","y","z",
     "A","B","C","D","E","F","G","H","I","J","K","L","M","N","O","P","Q","R",
     "S","T","U","V","W","X","Y","Z"}

\* \w
WordChars == Letters \cup Digits \cup {"_"}

\* the offset where the run of characters of S that starts at offset i ends
RunEnd(S, i) ==
    CHOOSE j \in i..Len(code) :
        /\ \A k \in i..(j - 1) : code[k + 1] \in S
        /\ (j = Len(code) \/ code[j + 1] \notin S)

\* Each re_X(i) is the end offset of pattern X matched at offset i, and i
\* itself when X does not match there (no pattern matches the empty string).

\* \d+(\.\d*)?
re_NUMBER(i) ==
    IF i < Len(code) /\ code[i + 1] \in Digits
    THEN LET d == RunEnd(Digits, i)
         IN  IF d < Len(code) /\ code[d + 1] = "."
             THEN RunEnd(Digits, d + 1)
             ELSE d
    ELSE i

\* [A-Za-z_]\w*
re_ID(i) ==
    IF i < Len(code) /\ code[i + 1] \in (Letters \cup {"_"})
    THEN RunEnd(WordChars, i + 1)
    ELSE i

\* the alternatives of OP in the order the pattern tries them; the last one,
\* the class [+\-*/%=<>], is OpClass
OpAlternatives ==
    << <<"=","=">>, <<"!","=">>, <<"<","=">>, <<">","=">>,
       <<"&","&">>, <<"|","|">>, <<"+","+">>, <<"-","-">> >>

OpClass == {"+", "-", "*", "/", "%", "=", "<", ">"}

LiteralAt(lit, i) ==
    /\ i + Len(lit) <= Len(code)
    /\ \A k \in 1..Len(lit) : code[i + k] = lit[k]

\* the class tried before the two-character alternatives
re_OP_ClassFirst(i) ==
    IF i < Len(code) /\ code[i + 1] \in OpClass
    THEN i + 1
    ELSE IF \E a \in 1..Len(OpAlternatives) : LiteralAt(OpAlternatives[a], i)
         THEN i + 2
         ELSE i

\* ==|!=|<=|>=|&&|\|\||\+\+|--|[+\-*/%=<>] : the first alternative that
\* matches wins
re_OP(i) ==
    IF \E a \in 1..Len(OpAlternatives) : LiteralAt(OpAlternatives[a], i)
    THEN LET a == CHOOSE a \in 1..Len(OpAlternatives) :
                      /\ LiteralAt(OpAlternatives[a], i)
                      /\ \A b \in 1..(a - 1) : ~LiteralAt(OpAlternatives[b], i)
         IN  i + Len(OpAlternatives[a])
    ELSE IF i < Len(code) /\ code[i + 1] \in OpClass
         THEN i + 1
         ELSE i

re_Char(c, i) == IF i < Len(code) /\ code[i + 1] = c THEN i + 1 ELSE i

\* [ \t]+
re_SKIP(i) ==
    IF i < Len(code) /\ code[i + 1] \in {" ", "\t"}
    THEN RunEnd({" ", "\t"}, i)
    ELSE i

token_specification ==
    <<"NUMBER", "ID", "OP", "SEMI", "LPAREN", "RPAREN", "LBRACE", "RBRACE",
      "SKIP", "NEWLINE">>

PatternEnd(name, i) ==
    CASE name = "NUMBER"  -> re_NUMBER(i)
      [] name = "ID"      -> re_ID(i)
      [] name = "OP"      -> re_OP(i)
      [] name = "SEMI"    -> re_Char(";", i)
      [] name = "LPAREN"  -> re_Char("(", i)
      [] name = "RPAREN"  -> re_Char(")", i)
      [] name = "LBRACE"  -> re_Char("{", i)
      [] name = "RBRACE"  -> re_Char("}", i)
      [] name = "SKIP"    -> re_SKIP(i)
      [] name = "NEWLINE" -> re_Char("\n", i)

\* token_regex matches at offset i
MatchesAt(i) ==
    \E n \in 1..Len(token_specification) :
        PatternEnd(token_specification[n], i) > i

\* the match of token_regex at offset i: the first named group that matches
MatchAt(i) ==
    LET n == CHOOSE n \in 1..Len(token_specification) :
                 /\ PatternEnd(token_specification[n], i) > i
                 /\ \A m \in 1..(n - 1) :
                        PatternEnd(token_specification[m], i) = i
    IN  [lastgroup |-> token_specification[n],
         start |-> i,
         end |-> PatternEnd(token_specification[n], i)]

\* re.finditer has another match at or after offset p
HasNext(p) == \E i \in p..(Len(code) - 1) : MatchesAt(i)

\* re.finditer's next match: the leftmost one at or after offset p
NextMatch(p) ==
    LET i == CHOOSE i \in p..(Len(code) - 1) :
                 /\ MatchesAt(i)
                 /\ \A j \in p..(i - 1) : ~MatchesAt(j)
    IN  MatchAt(i)

\* mo.group()
Group(m) == SubSeq(code, m.start + 1, m.end)

NoMatch == [lastgroup |-> "NONE", start |-> 0, end |-> 0]

\* one iteration of the loop whose match is an identifier spelled as a keyword
tokenize_keyword ==
    /\ scanning
    /\ HasNext(mo.end)
    /\ LET m == NextMatch(mo.end)
       IN  /\ m.lastgroup = "ID"
           /\ Group(m) \in keywords
           /\ mo' = m
           /\ tokens' = Append(tokens, Tok("KEYWORD", Group(m)))
    /\ UNCHANGED <<code, scanning>>
    /\ UNCHANGED parseVars

\* one iteration whose match is whitespace or a newline
tokenize_skip ==
    /\ scanning
    /\ HasNext(mo.end)
    /\ LET m == NextMatch(mo.end)
       IN  /\ m.lastgroup \in {"SKIP", "NEWLINE"}
           /\ mo' = m
    /\ UNCHANGED <<code, scanning, tokens>>
    /\ UNCHANGED parseVars

\* one iteration whose match becomes a token of its own kind
tokenize_append ==
    /\ scanning
    /\ HasNext(mo.end)
    /\ LET m == NextMatch(mo.end)
       IN  /\ ~(m.lastgroup = "ID" /\ Group(m) \in keywords)
           /\ m.lastgroup \notin {"SKIP", "NEWLINE"}
           /\ mo' = m
           /\ tokens' = Append(tokens, Tok(m.lastgroup, Group(m)))
    /\ UNCHANGED <<code, scanning>>
    /\ UNCHANGED parseVars

\* the iterator is exhausted: tokenize returns self.tokens
tokenize_return ==
    /\ scanning
    /\ ~HasNext(mo.end)
    /\ scanning' = FALSE
    /\ UNCHANGED <<code, mo, tokens>>
    /\ UNCHANGED parseVars

\* the characters the sources of ScanSpec are written in
SrcChars ==
    {"1", "i", "f", "_", ".", "=", "!", "<", ">", "&", "|", "+", "-", ";",
     " ", "\n"}

RECURSIVE SeqsUpTo(_, _)
SeqsUpTo(S, n) ==
    IF n = 0
    THEN {<<>>}
    ELSE LET shorter == SeqsUpTo(S, n - 1)
         IN  shorter \cup {Append(s, x) : s \in shorter, x \in S}

\* Scanner(code), before tokenize runs
ScanInit ==
    /\ code \in SeqsUpTo(SrcChars, MaxSrcLen)
    /\ mo = NoMatch
    /\ scanning = TRUE
    /\ tokens = <<>>
    /\ pos = 0
    /\ stack = <<>>
    /\ ret = <<"-", "-">>
    /\ printed = <<>>
    /\ calls = 0

ScanNext ==
    \/ tokenize_keyword
    \/ tokenize_skip
    \/ tokenize_append
    \/ tokenize_return

ScanSpec == ScanInit /\ [][ScanNext]_vars

\* ------------------------------------------------------------ Parser

\* expected_value = None
None == "<None>"

NoRet == <<"-", "-">>

NoTok == Tok("-", "-")

\* self.tokens[p] if p < len(self.tokens) else ('EOF', '')
Peek(p) == IF p < Len(tokens) THEN tokens[p + 1] ELSE EOF

\* self.pos += 1
Advance(p) == p + 1

\* the test of match(): on TRUE, match() advances the cursor from p
Matches(p, expected_type, expected_value) ==
    /\ Peek(p).type = expected_type
    /\ (expected_value = None \/ Peek(p).val = expected_value)

Frame(fn, pc) == [fn |-> fn, pc |-> pc]

\* the innermost active call is method fn, stopped at label pc
At(fn, pc) == stack # <<>> /\ stack[Len(stack)] = Frame(fn, pc)

Goto(pc) == [stack EXCEPT ![Len(stack)].pc = pc]

\* the running method goes on to label pc with the cursor at p
Jump(pc, p) ==
    /\ pos' = p
    /\ stack' = Goto(pc)
    /\ UNCHANGED <<ret, printed, calls, tokens>>
    /\ UNCHANGED scanVars

\* the running method calls self.callee() and will resume at label pc
Call(pc, callee, p) ==
    /\ pos' = p
    /\ stack' = Append(Goto(pc), Frame(callee, "start"))
    /\ UNCHANGED <<ret, printed, calls, tokens>>
    /\ UNCHANGED scanVars

\* the running method fn returns v ("T", "F", or "N" for None)
Return(fn, v, p) ==
    /\ pos' = p
    /\ stack' = SubSeq(stack, 1, Len(stack) - 1)
    /\ ret' = <<fn, v>>
    /\ UNCHANGED <<printed, calls, tokens>>
    /\ UNCHANGED scanVars

\* raise SyntaxError(text), caught by parse(), which prints it and returns;
\* tok is the token an f-string message shows, NoTok for a fixed message
Raise(text, tok, p) ==
    /\ pos' = p
    /\ stack' = <<>>
    /\ ret' = NoRet
    /\ printed' = Append(printed,
                         [outcome |-> "Rejected", text |-> text, tok |-> tok])
    /\ UNCHANGED <<calls, tokens>>
    /\ UNCHANGED scanVars

\* ---- parse

\* the caller runs parser.parse()
parse_call ==
    /\ ~scanning
    /\ stack = <<>>
    /\ calls < MaxCalls
    /\ calls' = calls + 1
    /\ stack' = <<Frame("parse", "start")>>
    /\ ret' = NoRet
    /\ UNCHANGED <<pos, printed, tokens>>
    /\ UNCHANGED scanVars

\* the prologue with the cursor put back to p when it does not match in full
MainPrologueRollback(p) ==
    IF /\ Matches(p, "KEYWORD", "int")
       /\ Matches(p + 1, "KEYWORD", "main")
       /\ Matches(p + 2, "LPAREN", None)
       /\ Matches(p + 3, "RPAREN", None)
    THEN [ok |-> TRUE, pos |-> p + 4]
    ELSE [ok |-> FALSE, pos |-> p]

\* match('KEYWORD','int') and match('KEYWORD','main') and match('LPAREN')
\* and match('RPAREN'), from cursor p: whether all four matched, and the
\* cursor the chain leaves
MainPrologue(p) ==
    IF ~Matches(p, "KEYWORD", "int")
    THEN [ok |-> FALSE, pos |-> p]
    ELSE LET p1 == Advance(p)
         IN  IF ~Matches(p1, "KEYWORD", "main")
             THEN [ok |-> FALSE, pos |-> p1]
             ELSE LET p2 == Advance(p1)
                  IN  IF ~Matches(p2, "LPAREN", None)
                      THEN [ok |-> FALSE, pos |-> p2]
                      ELSE LET p3 == Advance(p2)
                           IN  IF ~Matches(p3, "RPAREN", None)
                               THEN [ok |-> FALSE, pos |-> p3]
                               ELSE [ok |-> TRUE, pos |-> Advance(p3)]

\* the prologue matched: self.block() is called
parse_main ==
    /\ At("parse", "start")
    /\ MainPrologue(pos).ok
    /\ Call("afterMain", "block", MainPrologue(pos).pos)

\* the prologue did not match: on to the statement loop
parse_nomain ==
    /\ At("parse", "start")
    /\ ~MainPrologue(pos).ok
    /\ Jump("loop", MainPrologue(pos).pos)

parse_afterMain ==
    /\ At("parse", "afterMain")
    /\ IF ret[2] = "F"
       THEN Raise("Missing block after main()", NoTok, pos)
       ELSE Jump("loop", pos)

\* while self.pos < len(self.tokens): ... self.statement()
parse_loop ==
    /\ At("parse", "loop")
    /\ pos < Len(tokens)
    /\ Call("afterStmt", "statement", pos)

\* the loop ends: print("Code accepted.")
parse_accept ==
    /\ At("parse", "loop")
    /\ ~(pos < Len(tokens))
    /\ stack' = <<>>
    /\ ret' = NoRet
    /\ printed' = Append(printed,
                         [outcome |-> "Accepted", text |-> "Code accepted.",
                          tok |-> NoTok])
    /\ UNCHANGED <<pos, calls, tokens>>
    /\ UNCHANGED scanVars

parse_afterStmt ==
    /\ At("parse", "afterStmt")
    /\ IF ret[2] = "F"
       THEN Raise("Unexpected token", Peek(pos), pos)
       ELSE Jump("loop", pos)

\* ---- statement

TypeKeywords == {"int", "float", "double", "bool"}

\* the production statement() routes the current token to, "none" for none
Dispatch(tok) ==
    IF tok.type = "KEYWORD" /\ tok.val \in TypeKeywords THEN "declaration"
    ELSE IF tok.type = "ID" THEN "assignment"
    ELSE IF tok.type = "KEYWORD" /\ tok.val = "if" THEN "if_statement"
    ELSE IF tok.type = "KEYWORD" /\ tok.val = "while" THEN "while_loop"
    ELSE IF tok.type = "KEYWORD" /\ tok.val = "for" THEN "for_loop"
    ELSE IF tok.type = "KEYWORD" /\ tok.val = "return" THEN "return_statement"
    ELSE "none"

statement_dispatch ==
    /\ At("statement", "start")
    /\ Dispatch(Peek(pos)) # "none"
    /\ Call("tail", Dispatch(Peek(pos)), pos)

\* no branch applies: return False
statement_norule ==
    /\ At("statement", "start")
    /\ Dispatch(Peek(pos)) = "none"
    /\ Return("statement", "F", pos)

\* return self.<production>(): the production's value is statement's
statement_tail ==
    /\ At("statement", "tail")
    /\ Return("statement", ret[2], pos)

\* ---- declaration

declaration_start ==
    /\ At("declaration", "start")
    /\ LET p1 == Advance(pos)
       IN  IF Matches(p1, "ID", None)
           THEN LET p2 == Advance(p1)
                IN  IF Matches(p2, "OP", "=")
                    THEN Call("afterExpr", "expression", Advance(p2))
                    ELSE IF Matches(p2, "SEMI", None)
                         THEN Return("declaration", "T", Advance(p2))
                         ELSE Return("declaration", "F", p2)
           ELSE Return("declaration", "F", p1)

declaration_afterExpr ==
    /\ At("declaration", "afterExpr")
    /\ IF Matches(pos, "SEMI", None)
       THEN Return("declaration", "T", Advance(pos))
       ELSE Return("declaration", "F", pos)

\* ---- assignment

assignment_start ==
    /\ At("assignment", "start")
    /\ LET p1 == Advance(pos)
       IN  IF Matches(p1, "OP", "=")
           THEN Call("afterExpr", "expression", Advance(p1))
           ELSE Return("assignment", "F", p1)

assignment_afterExpr ==
    /\ At("assignment", "afterExpr")
    /\ IF Matches(pos, "SEMI", None)
       THEN Return("assignment", "T", Advance(pos))
       ELSE Return("assignment", "F", pos)

\* ---- expression

\* the lexemes after which expression() asks for another term
ChainOperators ==
    {"+", "-", "*", "/", "%", "||", "&&", "==", "!=", "<", "<=", ">", ">="}

expression_start ==
    /\ At("expression", "start")
    /\ Call("loop", "term", pos)

\* match('OP') succeeds and the operator just consumed is in the set
expression_chain ==
    /\ At("expression", "loop")
    /\ Matches(pos, "OP", None)
    /\ Peek(Advance(pos) - 1).val \in ChainOperators
    /\ Call("loop", "term", Advance(pos))

\* match('OP') succeeds, consuming the operator, and the set test fails
expression_otherop ==
    /\ At("expression", "loop")
    /\ Matches(pos, "OP", None)
    /\ Peek(Advance(pos) - 1).val \notin ChainOperators
    /\ Return("expression", "N", Advance(pos))

\* match('OP') fails
expression_end ==
    /\ At("expression", "loop")
    /\ ~Matches(pos, "OP", None)
    /\ Return("expression", "N", pos)

\* ---- term

term_atom ==
    /\ At("term", "start")
    /\ Peek(pos).type \in {"NUMBER", "ID", "KEYWORD"}
    /\ Return("term", "N", Advance(pos))

term_paren ==
    /\ At("term", "start")
    /\ Peek(pos).type \notin {"NUMBER", "ID", "KEYWORD"}
    /\ Matches(pos, "LPAREN", None)
    /\ Call("afterExpr", "expression", Advance(pos))

term_unexpected ==
    /\ At("term", "start")
    /\ Peek(pos).type \notin {"NUMBER", "ID", "KEYWORD"}
    /\ ~Matches(pos, "LPAREN", None)
    /\ Raise("Unexpected token in term", Peek(pos), pos)

term_afterExpr ==
    /\ At("term", "afterExpr")
    /\ IF Matches(pos, "RPAREN", None)
       THEN Return("term", "N", Advance(pos))
       ELSE Raise("Missing closing parenthesis", NoTok, pos)

\* ---- if_statement

if_statement_start ==
    /\ At("if_statement", "start")
    /\ LET p1 == Advance(pos)
       IN  IF Matches(p1, "LPAREN", None)
           THEN Call("afterCond", "expression", Advance(p1))
           ELSE Raise("Missing '(' after if", NoTok, p1)

if_statement_afterCond ==
    /\ At("if_statement", "afterCond")
    /\ IF Matches(pos, "RPAREN", None)
       THEN Call("afterThen", "block", Advance(pos))
       ELSE Raise("Missing ')' after if condition", NoTok, pos)

if_statement_afterThen ==
    /\ At("if_statement", "afterThen")
    /\ IF ret[2] = "F"
       THEN Raise("Missing block after if", NoTok, pos)
       ELSE IF Matches(pos, "KEYWORD", "else")
            THEN Call("afterElse", "block", Advance(pos))
            ELSE Return("if_statement", "T", pos)

if_statement_afterElse ==
    /\ At("if_statement", "afterElse")
    /\ IF ret[2] = "F"
       THEN Raise("Missing block after else", NoTok, pos)
       ELSE Return("if_statement", "T", pos)

\* ---- while_loop

while_loop_start ==
    /\ At("while_loop", "start")
    /\ LET p1 == Advance(pos)
       IN  IF Matches(p1, "LPAREN", None)
           THEN Call("afterCond", "expression", Advance(p1))
           ELSE Raise("Missing '(' after while", NoTok, p1)

while_loop_afterCond ==
    /\ At("while_loop", "afterCond")
    /\ IF Matches(pos, "RPAREN", None)
       THEN Call("afterBody", "block", Advance(pos))
       ELSE Raise("Missing ')' after while condition", NoTok, pos)

while_loop_afterBody ==
    /\ At("while_loop", "afterBody")
    /\ IF ret[2] = "F"
       THEN Raise("Missing block after while", NoTok, pos)
       ELSE Return("while_loop", "T", pos)

\* ---- for_loop

for_loop_start ==
    /\ At("for_loop", "start")
    /\ LET p1 == Advance(pos)
       IN  IF Matches(p1, "LPAREN", None)
           THEN Call("afterInit", "statement", Advance(p1))
           ELSE Raise("Missing '(' after for", NoTok, p1)

\* self.statement() has returned and its value is dropped; self.expression()
for_loop_afterInit ==
    /\ At("for_loop", "afterInit")
    /\ Call("afterCond", "expression", pos)

\* self.match('SEMI'), its value dropped; self.assignment()
for_loop_afterCond ==
    /\ At("for_loop", "afterCond")
    /\ Call("afterIncr", "assignment",
            IF Matches(pos, "SEMI", None) THEN Advance(pos) ELSE pos)

\* self.assignment() has returned and its value is dropped
for_loop_afterIncr ==
    /\ At("for_loop", "afterIncr")
    /\ IF Matches(pos, "RPAREN", None)
       THEN Call("afterBody", "block", Advance(pos))
       ELSE Raise("Missing ')' after for loop", NoTok, pos)

for_loop_afterBody ==
    /\ At("for_loop", "afterBody")
    /\ IF ret[2] = "F"
       THEN Raise("Missing block after for", NoTok, pos)
       ELSE Return("for_loop", "T", pos)

\* ---- return_statement

return_statement_start ==
    /\ At("return_statement", "start")
    /\ Call("afterExpr", "expression", Advance(pos))

return_statement_afterExpr ==
    /\ At("return_statement", "afterExpr")
    /\ IF Matches(pos, "SEMI", None)
       THEN Return("return_statement", "T", Advance(pos))
       ELSE Raise("Missing ';' after return", NoTok, pos)

\* ---- block

block_start ==
    /\ At("block", "start")
    /\ IF Matches(pos, "LBRACE", None)
       THEN Jump("loop", Advance(pos))
       ELSE Return("block", "F", pos)

\* while not self.match('RBRACE'): ... self.statement()
block_loop ==
    /\ At("block", "loop")
    /\ IF Matches(pos, "RBRACE", None)
       THEN Return("block", "T", Advance(pos))
       ELSE Call("afterStmt", "statement", pos)

\* a failed statement in a block that is skipped instead of raised
block_afterStmt_NoRaise ==
    /\ At("block", "afterStmt")
    /\ Jump("loop", pos)

block_afterStmt ==
    /\ At("block", "afterStmt")
    /\ IF ret[2] = "F"
       THEN Raise("Invalid statement in block", Peek(pos), pos)
       ELSE Jump("loop", pos)

\* ------------------------------------------------------------ inputs

KW(v) == Tok("KEYWORD", v)
IDx == Tok("ID", "x")
NUM1 == Tok("NUMBER", "1")
OP(v) == Tok("OP", v)
SEMI == Tok("SEMI", ";")
LPAREN == Tok("LPAREN", "(")
RPAREN == Tok("RPAREN", ")")
LBRACE == Tok("LBRACE", "{")
RBRACE == Tok("RBRACE", "}")

\* the tokens of the unrestricted short token lists
ShortTokens ==
    {KW("int"), KW("main"), IDx, NUM1, OP("="), OP("+"), SEMI, LPAREN, RPAREN,
     LBRACE, RBRACE}

\* the tokens a program of Programs has one of its tokens replaced by
AllTokens ==
    ShortTokens \cup
    {KW("float"), KW("if"), KW("else"), KW("while"), KW("for"), KW("return"),
     KW("true"), OP("=="), OP("<"), OP("++")}

\* token lists of whole programs, as tokenize returns them
Programs ==
    { \* int main ( ) { x = 1 ; } float x ;
      <<KW("int"), KW("main"), LPAREN, RPAREN, LBRACE, IDx, OP("="), NUM1,
        SEMI, RBRACE, KW("float"), IDx, SEMI>>,
      \* if ( x == 1 ) { int x = 1 ; } else { x = 1 ; }
      <<KW("if"), LPAREN, IDx, OP("=="), NUM1, RPAREN, LBRACE, KW("int"), IDx,
        OP("="), NUM1, SEMI, RBRACE, KW("else"), LBRACE, IDx, OP("="), NUM1,
        SEMI, RBRACE>>,
      \* while ( true ) { return ( x + 1 ) ; }
      <<KW("while"), LPAREN, KW("true"), RPAREN, LBRACE, KW("return"), LPAREN,
        IDx, OP("+"), NUM1, RPAREN, SEMI, RBRACE>>,
      \* for ( int x = 1 ; x < 1 ; x = x + 1 ) { }
      <<KW("for"), LPAREN, KW("int"), IDx, OP("="), NUM1, SEMI, IDx, OP("<"),
        NUM1, SEMI, IDx, OP("="), IDx, OP("+"), NUM1, RPAREN, LBRACE,
        RBRACE>>,
      \* for ( x = 1 ; x ; x = 1 ; ) { }
      <<KW("for"), LPAREN, IDx, OP("="), NUM1, SEMI, IDx, SEMI, IDx, OP("="),
        NUM1, SEMI, RPAREN, LBRACE, RBRACE>>,
      \* for ( x x ; x ) { }
      <<KW("for"), LPAREN, IDx, IDx, SEMI, IDx, RPAREN, LBRACE, RBRACE>>,
      \* x = 1 = x ;
      <<IDx, OP("="), NUM1, OP("="), IDx, SEMI>>,
      \* x = 1 ++ ;
      <<IDx, OP("="), NUM1, OP("++"), SEMI>>,
      \* float x = 1 ;
      <<KW("float"), IDx, OP("="), NUM1, SEMI>>,
      \* int x = 1 ;
      <<KW("int"), IDx, OP("="), NUM1, SEMI>> }

\* a program, each of its prefixes, and each list that differs from it in
\* one token
Variants(s) ==
    {SubSeq(s, 1, n) : n \in 0..Len(s)}
        \cup {[s EXCEPT ![i] = t] : i \in 1..Len(s), t \in AllTokens}

ParserInputs ==
    SeqsUpTo(ShortTokens, MaxLen) \cup UNION {Variants(s) : s \in Programs}

\* Parser(tokens), before parse() is called
ParseInit ==
    /\ code = <<>>
    /\ mo = NoMatch
    /\ scanning = FALSE
    /\ tokens \in ParserInputs
    /\ pos = 0
    /\ stack = <<>>
    /\ ret = NoRet
    /\ printed = <<>>
    /\ calls = 0

\* the steps of a running parse()
ParserStep ==
    \/ parse_main \/ parse_nomain \/ parse_afterMain
    \/ parse_loop \/ parse_accept \/ parse_afterStmt
    \/ statement_dispatch \/ statement_norule \/ statement_tail
    \/ declaration_start \/ declaration_afterExpr
    \/ assignment_start \/ assignment_afterExpr
    \/ expression_start \/ expression_chain \/ expression_otherop
    \/ expression_end
    \/ term_atom \/ term_paren \/ term_unexpected \/ term_afterExpr
    \/ if_statement_start \/ if_statement_afterCond
    \/ if_statement_afterThen \/ if_statement_afterElse
    \/ while_loop_start \/ while_loop_afterCond \/ while_loop_afterBody
    \/ for_loop_start \/ for_loop_afterInit \/ for_loop_afterCond
    \/ for_loop_afterIncr \/ for_loop_afterBody
    \/ return_statement_start \/ return_statement_afterExpr
    \/ block_start \/ block_loop \/ block_afterStmt

ParseNext == parse_call \/ ParserStep

ParseSpec == ParseInit /\ [][ParseNext]_vars

\* parse() is sequential code that runs to completion once called; the
\* caller is not obliged to call it
FairParseSpec == ParseSpec /\ WF_vars(ParserStep)

\* ------------------------------------------------------------ grammar
\* The grammar of the specification, section 4.2 (program, statement, declaration,
\* assignment, if_stmt, while_stmt, for_stmt, return_stmt, block, expression,
\* term), as a recognizer independent of the parser above: X_Ends(t, i) is
\* the set of cursors j such that tokens i..j-1 of t derive X.

TokAt(t, i) == IF i < Len(t) THEN t[i + 1] ELSE EOF

Is(t, i, type) == TokAt(t, i).type = type

IsLex(t, i, type, val) == TokAt(t, i) = Tok(type, val)

RECURSIVE Term_Ends(_, _), Expression_Ends(_, _), Statement_Ends(_, _),
          Block_Ends(_, _), Statements_Ends(_, _)

\* term := NUMBER | IDENT | KEYWORD | '(' expression ')'
Term_Ends(t, i) ==
    IF TokAt(t, i).type \in {"NUMBER", "ID", "KEYWORD"}
    THEN {i + 1}
    ELSE IF Is(t, i, "LPAREN")
         THEN {j + 1 : j \in {k \in Expression_Ends(t, i + 1) :
                                  Is(t, k, "RPAREN")}}
         ELSE {}

\* expression := term ( BIN_OP term )*, BIN_OP any operator token
Expression_Ends(t, i) ==
    LET first == Term_Ends(t, i)
    IN  first \cup UNION {Expression_Ends(t, j + 1) :
                              j \in {k \in first : Is(t, k, "OP")}}

\* the cursors after an X that starts at i and is followed by a token of
\* type closing
Closed(t, ends, closing) == {j + 1 : j \in {k \in ends : Is(t, k, closing)}}

\* declaration := type_kw IDENT [ '=' expression ] ';'
Declaration_Ends(t, i) ==
    IF /\ Is(t, i, "KEYWORD")
       /\ TokAt(t, i).val \in {"int", "float", "double", "bool"}
       /\ Is(t, i + 1, "ID")
    THEN (IF Is(t, i + 2, "SEMI") THEN {i + 3} ELSE {})
             \cup (IF IsLex(t, i + 2, "OP", "=")
                   THEN Closed(t, Expression_Ends(t, i + 3), "SEMI")
                   ELSE {})
    ELSE {}

\* assignment := IDENT '=' expression ';'
Assignment_Ends(t, i) ==
    IF Is(t, i, "ID") /\ IsLex(t, i + 1, "OP", "=")
    THEN Closed(t, Expression_Ends(t, i + 2), "SEMI")
    ELSE {}

\* 'kw' '(' expression ')' block
Guarded_Ends(t, i, kw) ==
    IF IsLex(t, i, "KEYWORD", kw) /\ Is(t, i + 1, "LPAREN")
    THEN UNION {Block_Ends(t, j) :
                    j \in Closed(t, Expression_Ends(t, i + 2), "RPAREN")}
    ELSE {}

\* if_stmt := 'if' '(' expression ')' block [ 'else' block ]
If_Ends(t, i) ==
    LET then == Guarded_Ends(t, i, "if")
    IN  then \cup UNION {Block_Ends(t, j + 1) :
                             j \in {k \in then :
                                        IsLex(t, k, "KEYWORD", "else")}}

\* for_stmt := 'for' '(' statement expression ';' assignment ')' block
For_Ends(t, i) ==
    IF IsLex(t, i, "KEYWORD", "for") /\ Is(t, i + 1, "LPAREN")
    THEN LET init == Statement_Ends(t, i + 2)
             cond == UNION {Closed(t, Expression_Ends(t, j), "SEMI") :
                                j \in init}
             incr == UNION {Closed(t, Assignment_Ends(t, j), "RPAREN") :
                                j \in cond}
         IN  UNION {Block_Ends(t, j) : j \in incr}
    ELSE {}

\* return_stmt := 'return' expression ';'
Return_Ends(t, i) ==
    IF IsLex(t, i, "KEYWORD", "return")
    THEN Closed(t, Expression_Ends(t, i + 1), "SEMI")
    ELSE {}

Statement_Ends(t, i) ==
    Declaration_Ends(t, i) \cup Assignment_Ends(t, i) \cup If_Ends(t, i)
        \cup Guarded_Ends(t, i, "while") \cup For_Ends(t, i)
        \cup Return_Ends(t, i)

\* statement*
Statements_Ends(t, i) ==
    {i} \cup UNION {Statements_Ends(t, j) : j \in Statement_Ends(t, i)}

\* block := '{' statement* '}'
Block_Ends(t, i) ==
    IF Is(t, i, "LBRACE")
    THEN Closed(t, Statements_Ends(t, i + 1), "RBRACE")
    ELSE {}

\* program := [ 'int' 'main' '(' ')' block ] statement*
Derivable(t) ==
    \/ Len(t) \in Statements_Ends(t, 0)
    \/ /\ IsLex(t, 0, "KEYWORD", "int")
       /\ IsLex(t, 1, "KEYWORD", "main")
       /\ Is(t, 2, "LPAREN")
       /\ Is(t, 3, "RPAREN")
       /\ \E j \in Block_Ends(t, 4) : Len(t) \in Statements_Ends(t, j)

\* ------------------------------------------------------------ properties

\* the first call of parse() has finished
FirstDone == stack = <<>> /\ calls = 1

\* the running step ends the parse with the outcome Rejected
Rejects ==
    /\ stack' = <<>>
    /\ Len(printed') = Len(printed) + 1
    /\ printed'[Len(printed')].outcome = "Rejected"

\* C1: parse reports Accepted if and only if the whole token sequence is
\* derivable from the grammar's program rule.
C1_AcceptedIffDerivable ==
    FirstDone => (printed[1].outcome = "Accepted" <=> Derivable(tokens))

\* t is a declaration or an assignment that lacks only its final ';'
MissingSemi(t) ==
    LET full == Append(t, SEMI)
    IN  Len(full) \in (Declaration_Ends(full, 0) \cup Assignment_Ends(full, 0))

\* the messages of the source that name a ';'
SemiMessages == {"Missing ';' after return"}

\* C2: a top-level declaration or assignment that lacks only its ';' is
\* Rejected with a message that names the missing ';'.
C2_MissingSemiNamed ==
    (FirstDone /\ MissingSemi(tokens)) =>
        /\ printed[1].outcome = "Rejected"
        /\ printed[1].text \in SemiMessages

\* statement(), declaration() or assignment() has just reported failure to a
\* caller that is still running
FailureReported ==
    /\ stack # <<>>
    /\ ret[1] \in {"statement", "declaration", "assignment"}
    /\ ret[2] = "F"

\* the running method is about to match a ';' that its production requires,
\* and the current token is not one
SemiUnmatched ==
    /\ \/ At("declaration", "afterExpr")
       \/ At("assignment", "afterExpr")
       \/ At("return_statement", "afterExpr")
       \/ At("for_loop", "afterCond")
    /\ ~Matches(pos, "SEMI", None)

\* the running step ends the parse with the outcome Accepted
Accepts ==
    /\ stack' = <<>>
    /\ Len(printed') = Len(printed) + 1
    /\ printed'[Len(printed')].outcome = "Accepted"

\* C3: once statement(), declaration() or assignment() has reported failure,
\* no token is consumed and the parse is not Accepted, for as long as no
\* later return replaces the report; and a step that fails to match a
\* required ';' consumes nothing and either reports failure or rejects.
C3_FirstViolationAborts ==
    /\ [][FailureReported => (pos' = pos /\ ~Accepts)]_vars
    /\ [][SemiUnmatched => (pos' = pos /\ (ret'[2] = "F" \/ Rejects))]_vars

\* C4: tokenize never skips a character: every match starts where the one
\* before it ended, and when tokenize returns the matches cover the source.
C4_NoSilentSkip ==
    /\ [][mo' # mo => mo'.start = mo.end]_vars
    /\ [](~scanning => mo.end = Len(code))

\* C5: in expression(), every Operator token that follows a term is consumed
\* and another term is then required, whatever its lexeme.
C5_AnyOperatorChains ==
    [][(At("expression", "loop") /\ Matches(pos, "OP", None)) =>
           /\ pos' = pos + 1
           /\ At("term", "start")']_vars

\* the two-character operators
TwoCharOperators ==
    { <<"=","=">>, <<"!","=">>, <<"<","=">>, <<">","=">>, <<"&","&">>,
      <<"|","|">>, <<"+","+">>, <<"-","-">> }

\* a two-character operator starts at offset p of the source
TwoCharOperatorAt(p) ==
    p + 2 <= Len(code) /\ SubSeq(code, p + 1, p + 2) \in TwoCharOperators

\* C6: whenever the scan position is at the start of a two-character
\* operator, the next match is that operator, emitted as one OP token.
C6_MaximalMunch ==
    [][(scanning /\ TwoCharOperatorAt(mo.end)) =>
           /\ mo' = [lastgroup |-> "OP", start |-> mo.end, end |-> mo.end + 2]
           /\ tokens' = Append(tokens,
                               Tok("OP", SubSeq(code, mo.end + 1, mo.end + 2)))
      ]_vars

\* "<=" was emitted as one token, with "=" following it in the source
C6_Witness ==
    /\ Len(code) = 3
    /\ mo = [lastgroup |-> "OP", start |-> 0, end |-> 2]
    /\ tokens = <<Tok("OP", <<"<", "=">>)>>
    /\ code[3] = "="

\* the main prologue, token by token
PrologueMatch(i, tok) ==
    CASE i = 1 -> tok = Tok("KEYWORD", "int")
      [] i = 2 -> tok = Tok("KEYWORD", "main")
      [] i = 3 -> tok.type = "LPAREN"
      [] i = 4 -> tok.type = "RPAREN"

\* how many of 'int', 'main', '(', ')' the tokens at cursor p start with
PrologueCount(p) ==
    CHOOSE k \in 0..4 :
        /\ \A i \in 1..k : PrologueMatch(i, Peek(p + i - 1))
        /\ (k = 4 \/ ~PrologueMatch(k + 1, Peek(p + k)))

\* C7: the main prologue is attempted once, first, and is not rolled back:
\* when only k < 4 of its tokens match, the statement loop starts with those
\* k tokens consumed; when all four match, a block is required, and without
\* one the parse is Rejected.
C7_PrologueNotRolledBack ==
    /\ [][At("parse", "start") =>
              /\ PrologueCount(pos) < 4 =>
                     (At("parse", "loop")' /\ pos' = pos + PrologueCount(pos))
              /\ PrologueCount(pos) = 4 =>
                     (At("block", "start")' /\ pos' = pos + 4)]_vars
    /\ [][At("parse", "start")' => stack = <<>>]_vars
    /\ []((calls = 1 /\ At("parse", "start")) => pos = 0)
    /\ []((FirstDone /\ PrologueCount(0) = 4 /\ Peek(4).type # "LBRACE") =>
              printed[1].outcome = "Rejected")

\* the statement loop of the first call starts with 'int' 'main' '('
\* consumed, the fourth token not being ')'
C7_Witness ==
    /\ calls = 1
    /\ At("parse", "loop")
    /\ PrologueCount(0) = 3
    /\ pos = 3

\* C8: advance() runs only while the cursor is below the number of tokens,
\* so the cursor stays within 0..len(tokens).
C8_CursorInRange == pos \in 0..Len(tokens)

\* the methods statement() dispatches to
Productions ==
    {"declaration", "assignment", "if_statement", "while_loop", "for_loop",
     "return_statement"}

\* C9: every call of parse() terminates, with exactly one printed outcome;
\* every production entered, every turn of the expression chain and every
\* descent from a term into an expression or into a block's body moves the
\* cursor forward.
C9_Terminates ==
    /\ [](stack = <<>> => Len(printed) = calls)
    /\ [](stack # <<>> => Len(printed) = calls - 1)
    /\ [][(\E f \in Productions : At(f, "start")) => pos' > pos]_vars
    /\ [][(At("expression", "loop") /\ At("term", "start")') =>
              pos' > pos]_vars
    /\ [][(At("term", "start") /\ At("expression", "start")') =>
              pos' > pos]_vars
    /\ [][(At("block", "start") /\ At("block", "loop")') => pos' > pos]_vars
    /\ (stack # <<>>) ~> (stack = <<>>)

\* a call over a program with nested blocks, a loop and a parenthesised
\* expression has ended Accepted
C9_Witness ==
    /\ FirstDone
    /\ Len(tokens) = 13
    /\ tokens[1] = KW("while")
    /\ printed[1].outcome = "Accepted"

\* C10: a second call of parse() on the same Parser yields the outcome of
\* the first.
C10_SecondCallSame ==
    (stack = <<>> /\ calls = 2) => printed[2].outcome = printed[1].outcome

====
